---- MODULE Spec2Model ----
(***************************************************************************)
(* Syllabus -> Calendar: the parse route (line filter, title extractor,    *)
(* event resolver, de-duplication), the ICS serializer and the page's      *)
(* state (requests in flight, preview-table edits).                        *)
(*                                                                         *)
(* Text is a sequence of one-character strings; the en dash and the em     *)
(* dash are the characters "EN" and "EM".  Regular expressions are         *)
(* abstract syntax trees matched by a backtracking matcher that returns    *)
(* the end positions of the matches at a position in JavaScript's          *)
(* priority order (greedy quantifiers, ordered alternation).               *)
(***************************************************************************)
EXTENDS Integers, Sequences, FiniteSets, TLC

(***************************************************************************)
(* Characters and strings                                                  *)
(***************************************************************************)
LowerSeq == <<"a","b","c","d","e","f","g","h","i","j","k","l","m",
              "n","o","p","q","r","s","t","u","v","w","x","y","z">>

UpperSeq == <<"A","B","C","D","E","F","G","H","I","J","K","L","M",
              "N","O","P","Q","R","S","T","U","V","W","X","Y","Z">>

LowerSet == {LowerSeq[i] : i \in 1..26}

UpperSet == {UpperSeq[i] : i \in 1..26}

DigitSet == {"0","1","2","3","4","5","6","7","8","9"}

\* \w of a JavaScript regular expression (ASCII only)
WordSet == LowerSet \cup UpperSet \cup DigitSet \cup {"_"}

\* \s of a JavaScript regular expression, and what String.prototype.trim removes
SpaceSet == {" ", "\t"}

\* [–—-] : en dash, em dash, hyphen
DashSet == {"EN", "EM", "-"}

\* String.prototype.toLowerCase on one character
LowerChar(c) ==
    IF c \in UpperSet THEN LowerSeq[CHOOSE i \in 1..26 : UpperSeq[i] = c] ELSE c

toLowerCase(s) == [i \in 1..Len(s) |-> LowerChar(s[i])]

\* the characters s[a+1..b] (positions are 0-based offsets, as in JavaScript)
Slice(s, a, b) == IF b <= a THEN <<>> ELSE SubSeq(s, a + 1, b)

RECURSIVE TrimStart(_)
TrimStart(s) ==
    IF s # <<>> /\ Head(s) \in SpaceSet THEN TrimStart(Tail(s)) ELSE s

RECURSIVE TrimEnd(_)
TrimEnd(s) ==
    IF s # <<>> /\ s[Len(s)] \in SpaceSet THEN TrimEnd(SubSeq(s, 1, Len(s) - 1)) ELSE s

\* String.prototype.trim
trim(s) == TrimEnd(TrimStart(s))

RECURSIVE Concat(_)
Concat(ss) == IF ss = <<>> THEN <<>> ELSE Head(ss) \o Concat(Tail(ss))

\* Array.prototype.join
RECURSIVE join(_, _)
join(ss, sep) ==
    IF ss = <<>> THEN <<>>
    ELSE IF Len(ss) = 1 THEN ss[1]
    ELSE ss[1] \o sep \o join(Tail(ss), sep)

(***************************************************************************)
(* Regular expressions                                                     *)
(***************************************************************************)
Chr(cs) == [t |-> "chr", cs |-> cs]

Cat(rs) == [t |-> "cat", rs |-> rs]

Alt(rs) == [t |-> "alt", rs |-> rs]

\* r{lo,hi}, greedy; hi = -1 is unbounded
Rep(r, lo, hi) == [t |-> "rep", r |-> r, lo |-> lo, hi |-> hi]

Opt(r) == Rep(r, 0, 1)

Star(r) == Rep(r, 0, -1)

Plus(r) == Rep(r, 1, -1)

\* \b
Bnd == [t |-> "bnd"]

\* ^
Bol == [t |-> "bol"]

\* a literal word
Lit(w) == Cat([i \in 1..Len(w) |-> Chr({w[i]})])

IsWordAt(s, i) == i >= 1 /\ i <= Len(s) /\ s[i] \in WordSet

\* The end positions of the matches of r in s that start at offset i, best first.
\* ci: the i flag (the pattern's letters are written in lower case).
RECURSIVE Match(_, _, _, _)
RECURSIVE MatchCat(_, _, _, _)
RECURSIVE MatchAlt(_, _, _, _)
RECURSIVE MatchRep(_, _, _, _, _)
RECURSIVE MatchFrom(_, _, _, _)
Match(r, s, i, ci) ==
    CASE r.t = "chr" ->
           IF i < Len(s) /\ (IF ci THEN LowerChar(s[i + 1]) ELSE s[i + 1]) \in r.cs
           THEN <<i + 1>> ELSE <<>>
      [] r.t = "bnd" -> IF IsWordAt(s, i) # IsWordAt(s, i + 1) THEN <<i>> ELSE <<>>
      [] r.t = "bol" -> IF i = 0 THEN <<i>> ELSE <<>>
      [] r.t = "cat" -> MatchCat(r.rs, s, i, ci)
      [] r.t = "alt" -> MatchAlt(r.rs, s, i, ci)
      [] r.t = "rep" -> MatchRep(r, s, i, ci, 0)

\* the matches of the rest rs from each end in es, in order
MatchFrom(rs, s, es, ci) ==
    IF es = <<>> THEN <<>>
    ELSE MatchCat(rs, s, Head(es), ci) \o MatchFrom(rs, s, Tail(es), ci)

MatchCat(rs, s, i, ci) ==
    IF rs = <<>> THEN <<i>>
    ELSE MatchFrom(Tail(rs), s, Match(Head(rs), s, i, ci), ci)

MatchAlt(rs, s, i, ci) ==
    IF rs = <<>> THEN <<>>
    ELSE Match(Head(rs), s, i, ci) \o MatchAlt(Tail(rs), s, i, ci)

MatchRep(r, s, i, ci, n) ==
    LET more == IF r.hi >= 0 /\ n >= r.hi THEN <<>>
                ELSE SelectSeq(Match(r.r, s, i, ci), LAMBDA e : e > i)
        RECURSIVE Each(_)
        Each(es) == IF es = <<>> THEN <<>>
                    ELSE MatchRep(r, s, Head(es), ci, n + 1) \o Each(Tail(es))
    IN  Each(more) \o (IF n >= r.lo THEN <<i>> ELSE <<>>)

\* the first match of r in s at or after offset p: <<start, end>>, or <<>>
RECURSIVE Exec(_, _, _, _)
Exec(r, s, p, ci) ==
    IF p > Len(s) THEN <<>>
    ELSE LET es == Match(r, s, p, ci)
         IN  IF es # <<>> THEN <<p, Head(es)>> ELSE Exec(r, s, p + 1, ci)

\* RegExp.prototype.test
test(r, s, ci) == Exec(r, s, 0, ci) # <<>>

\* String.prototype.replace(r, "") without the g flag
replace(r, s, ci) ==
    LET m == Exec(r, s, 0, ci)
    IN  IF m = <<>> THEN s ELSE Slice(s, 0, m[1]) \o Slice(s, m[2], Len(s))

\* String.prototype.split(r) for a pattern that matches no empty string
RECURSIVE SplitFrom(_, _, _, _)
SplitFrom(r, s, p, ci) ==
    LET m == Exec(r, s, p, ci)
    IN  IF m = <<>> THEN <<Slice(s, p, Len(s))>>
        ELSE <<Slice(s, p, m[1])>> \o SplitFrom(r, s, m[2], ci)

split(r, s, ci) == SplitFrom(r, s, 0, ci)

\* String.prototype.includes
RECURSIVE includes(_, _)
includes(s, w) ==
    IF Len(s) < Len(w) THEN FALSE
    ELSE IF SubSeq(s, 1, Len(w)) = w THEN TRUE
    ELSE includes(Tail(s), w)

(***************************************************************************)
(* The parse route: line filter                                            *)
(***************************************************************************)
Digit == Chr(DigitSet)

Space == Chr(SpaceSet)

AltLit(ws) == Alt([i \in 1..Len(ws) |-> Lit(ws[i])])

MonthWords ==
    <<<<"j","a","n">>, <<"f","e","b">>, <<"m","a","r">>, <<"a","p","r">>, <<"m","a","y">>, <<"j","u","n">>, <<"j","u","l">>, <<"a","u","g">>, <<"s","e","p">>, <<"s","e","p","t">>, <<"o","c","t">>, <<"n","o","v">>, <<"d","e","c">>>>

WeekdayWords ==
    <<<<"m","o","n">>, <<"t","u","e">>, <<"t","u","e","s">>, <<"w","e","d">>, <<"t","h","u">>, <<"t","h","u","r">>, <<"t","h","u","r","s">>, <<"f","r","i">>, <<"s","a","t">>, <<"s","u","n">>>>

\* Words that often indicate "this is an event"
HINTS ==
    <<<<"e","x","a","m">>, <<"q","u","i","z">>, <<"m","i","d","t","e","r","m">>, <<"f","i","n","a","l">>, <<"a","s","s","i","g","n","m","e","n","t">>, <<"p","r","o","j","e","c","t">>, <<"p","a","p","e","r">>, <<"h","w">>, <<"r","e","a","d","i","n","g">>, <<"p","r","e","s","e","n","t","a","t","i","o","n">>, <<"l","a","b">>, <<"r","e","p","o","r","t">>>>

AmPm == AltLit(<<<<"a","m">>, <<"p","m">>>>)

\* /\b\d{1,2}\/\d{1,2}\b/
ReSlashDate == Cat(<<Bnd, Rep(Digit, 1, 2), Chr({"/"}), Rep(Digit, 1, 2), Bnd>>)

\* /(?:jan|feb|mar|apr|may|jun|jul|aug|sep|sept|oct|nov|dec)\w*\s+\d{1,2}/i
ReMonthName == Cat(<<AltLit(MonthWords), Star(Chr(WordSet)), Plus(Space), Rep(Digit, 1, 2)>>)

\* /\b(due|deadline)\b/i
ReDue == Cat(<<Bnd, AltLit(<<<<"d","u","e">>, <<"d","e","a","d","l","i","n","e">>>>), Bnd>>)

\* /\b(exam|quiz|midterm|final)\b/i
ReExamWord == Cat(<<Bnd, AltLit(SubSeq(HINTS, 1, 4)), Bnd>>)

\* /\b\d+\b/
ReAnyNumber == Cat(<<Bnd, Plus(Digit), Bnd>>)

\* hasOtherHint with the exam words left out of the hints
hasOtherHintNoExamWords(l) == \E k \in 5..Len(HINTS) : includes(l, HINTS[k])

\* HINTS.some((h) => l.includes(h))
hasOtherHint(l) == \E k \in 1..Len(HINTS) : includes(l, HINTS[k])

\* Keep only lines that look like they contain a real date or strong event cue
isDatey(line) ==
    LET l == toLowerCase(line)
        hasSlashDate == test(ReSlashDate, l, FALSE)
        hasMonthName == test(ReMonthName, l, TRUE)
        hasDue == test(ReDue, l, TRUE)
        hasExamWord == test(ReExamWord, l, TRUE)
        hasAnyNumber == test(ReAnyNumber, l, FALSE)
    IN  hasSlashDate \/ hasMonthName \/ hasDue \/ hasExamWord
          \/ (hasOtherHint(l) /\ hasAnyNumber)

(***************************************************************************)
(* The parse route: title extractor                                        *)
(***************************************************************************)
\* /\s[–—-]\s/
ReDashSplit == Cat(<<Space, Chr(DashSet), Space>>)

\* /^\s*\b(mon|tue|tues|wed|thu|thur|thurs|fri|sat|sun)\b\.?,?\s+/i
ReWeekday ==
    Cat(<<Bol, Star(Space), Bnd, AltLit(WeekdayWords), Bnd,
          Opt(Chr({"."})), Opt(Chr({","})), Plus(Space)>>)

\* /^(?:jan|feb|mar|apr|may|jun|jul|aug|sep|sept|oct|nov|dec)[a-z]*\s+\d{1,2}\s*/i
ReMonthDay ==
    Cat(<<Bol, AltLit(MonthWords), Star(Chr(LowerSet)), Plus(Space), Rep(Digit, 1, 2), Star(Space)>>)

\* /^\d{1,2}\/\d{1,2}\s*/
ReSlashLead == Cat(<<Bol, Rep(Digit, 1, 2), Chr({"/"}), Rep(Digit, 1, 2), Star(Space)>>)

\* \d{1,2}(:\d{2})?\s?(am|pm)?
ReClock(ampm) == Cat(<<Rep(Digit, 1, 2), Opt(Cat(<<Chr({":"}), Rep(Digit, 2, 2)>>)), Opt(Space), ampm>>)

\* /^\d{1,2}(:\d{2})?\s?(am|pm)?\s*(–|-)\s*\d{1,2}(:\d{2})?\s?(am|pm)?\s*/i
ReTimeRange ==
    Cat(<<Bol, ReClock(Opt(AmPm)), Star(Space), Chr({"EN", "-"}), Star(Space),
          ReClock(Opt(AmPm)), Star(Space)>>)

\* /^\d{1,2}(:\d{2})?\s?(am|pm)\s*/i
ReSingleTime == Cat(<<Bol, ReClock(AmPm), Star(Space)>>)

\* Clean, human title that doesn't eat "10:00" because of the colon
extractTitle(line) ==
    LET dashSplit == split(ReDashSplit, line, FALSE)
        s1 == replace(ReWeekday, line, TRUE)
        s2 == replace(ReMonthDay, s1, TRUE)
        s3 == replace(ReSlashLead, s2, FALSE)
        s4 == replace(ReTimeRange, s3, TRUE)
        s5 == replace(ReSingleTime, s4, TRUE)
    IN  IF Len(dashSplit) > 1
        THEN trim(join(Tail(dashSplit), <<" ", "-", " ">>))
        ELSE IF trim(s5) # <<>> THEN trim(s5) ELSE trim(line)

(***************************************************************************)
(* The parse route: lexical tests of the resolver                          *)
(***************************************************************************)
\* /\b(due|deadline)\b/i.test(line)
isDeadlineLine(line) == test(ReDue, line, TRUE)

\* /(\b\d{1,2}:\d{2}\s?(am|pm)?\b)|(\b\d{1,2}\s?(am|pm)\b)/i
ReTimeToken ==
    Alt(<<Cat(<<Bnd, Rep(Digit, 1, 2), Chr({":"}), Rep(Digit, 2, 2), Opt(Space), Opt(AmPm), Bnd>>),
          Cat(<<Bnd, Rep(Digit, 1, 2), Opt(Space), AmPm, Bnd>>)>>)

hasTimeTokenLine(line) == test(ReTimeToken, line, TRUE)


(***************************************************************************)
(* Dates.  A Date is a local calendar minute [year, moy] (moy: the minute  *)
(* of the year), an Invalid Date, or undefined.  The local time zone is    *)
(* UTC and the model's years are not leap years.                           *)
(***************************************************************************)
Undefined == [k |-> "undefined"]

InvalidDate == [k |-> "invalid"]

\* Years whose every minute is within a Date's range (8.64e15 ms around the epoch)
MaxDateYear == 275760

MonthDays == <<31, 28, 31, 30, 31, 30, 31, 31, 30, 31, 30, 31>>

RECURSIVE DaysBefore(_)
DaysBefore(m) == IF m <= 1 THEN 0 ELSE DaysBefore(m - 1) + MonthDays[m - 1]

DayMinutes == 24 * 60

YearMinutes == 365 * DayMinutes

\* new Date(y, m - 1, d, h, mi)
MkDate(y, m, d, h, mi) ==
    IF y >= MaxDateYear \/ y <= -MaxDateYear THEN InvalidDate
    ELSE [k |-> "date", year |-> y,
          moy |-> ((DaysBefore(m) + d - 1) * 24 + h) * 60 + mi]

\* date-fns isValid
isValid(d) == d.k = "date"

getFullYear(d) == d.year

\* getMonth() + 1
MonthOf(d) ==
    LET doy == d.moy \div DayMinutes
    IN  CHOOSE m \in 1..12 : DaysBefore(m) <= doy /\ doy < DaysBefore(m) + MonthDays[m]

getDate(d) == d.moy \div DayMinutes - DaysBefore(MonthOf(d)) + 1

getHours(d) == (d.moy % DayMinutes) \div 60

getMinutes(d) == d.moy % 60

\* Date.prototype.setFullYear(y): an Invalid Date restarts from time value +0
setFullYear(d, y) ==
    IF y >= MaxDateYear \/ y <= -MaxDateYear THEN InvalidDate
    ELSE IF d.k = "date" THEN [d EXCEPT !.year = y]
    ELSE MkDate(y, 1, 1, 0, 0)

\* new Date(d.getTime() + n * 60 * 1000)
AddMinutes(d, n) ==
    IF d.k # "date" THEN InvalidDate
    ELSE LET total == d.moy + n
             y == d.year + total \div YearMinutes
         IN  IF y >= MaxDateYear \/ y <= -MaxDateYear THEN InvalidDate
             ELSE [k |-> "date", year |-> y, moy |-> total % YearMinutes]

\* d.getTime() of a valid Date, in minutes since the year 2000
getTime(d) == (d.year - 2000) * YearMinutes + d.moy

\* Date.prototype.toISOString of a valid Date: YYYY-MM-DDTHH:mm (it throws a
\* RangeError on an Invalid Date; the callers test isValid first)
toISOString(d) == <<getFullYear(d), MonthOf(d), getDate(d), getHours(d), getMinutes(d)>>

\* new Date(iso) for an ISO string as toISOString writes it
DateOfISO(iso) == MkDate(iso[1], iso[2], iso[3], iso[4], iso[5])


(***************************************************************************)
(* JSON values of a request body                                           *)
(***************************************************************************)
Num(v) == [k |-> "num", v |-> v]

NaN == [k |-> "nan"]

\* a finite number of minutes beyond every Date's range (such as 1e15)
Huge == [k |-> "huge"]

Str(s) == [k |-> "str", s |-> s]

\* Number(x)
Number(x) == IF x.k \in {"num", "huge"} THEN x ELSE NaN

\* Number.isFinite
NumberIsFinite(n) == n.k \in {"num", "huge"}

\* the truth value of a JSON value
Truthy(x) ==
    CASE x.k = "num" -> x.v # 0
      [] x.k = "str" -> x.s # <<>>
      [] x.k = "huge" -> TRUE
      [] OTHER -> FALSE

(***************************************************************************)
(* The date/time extraction capability (chrono-node).  Corpus lists the    *)
(* lines of the model: each with the capability's answer for the line and  *)
(* for the line with the default time appended.  A component holds the     *)
(* fields found and the set of fields that are certain (explicit in the    *)
(* text); an uncertain year is implied from the reference date.            *)
(***************************************************************************)
Comp(y, m, d, h, mi, certain) ==
    [y |-> y, m |-> m, d |-> d, h |-> h, mi |-> mi, certain |-> certain, bad |-> FALSE]

\* a component whose date() is an Invalid Date
BadComp(certain) ==
    [y |-> 0, m |-> 1, d |-> 1, h |-> 0, mi |-> 0, certain |-> certain, bad |-> TRUE]

Single(start) == <<[start |-> start, end |-> <<>>]>>

Range(start, end) == <<[start |-> start, end |-> <<end>>]>>

MD == {"month", "day"}

MDT == {"month", "day", "hour", "minute"}

Corpus ==
    << [raw |-> <<"O","c","t"," ","6"," ","1","p","m"," ","Q","u","i","z">>,
        parse |-> Single(Comp(0, 10, 6, 13, 0, MDT)), retry |-> <<>>],
       [raw |-> <<" ","O","c","t"," ","6"," ","Q","u","i","z"," ">>,
        parse |-> Single(Comp(0, 10, 6, 12, 0, MD)), retry |-> <<>>],
       [raw |-> <<"O","c","t"," ","6"," ","1","2","p","m"," ","Q","u","i","z">>,
        parse |-> Single(Comp(0, 10, 6, 12, 0, MDT)), retry |-> <<>>],
       [raw |-> <<"H","W","2"," ","d","u","e"," ","1","0","/","9">>,
        parse |-> Single(Comp(0, 10, 9, 12, 0, MD)), retry |-> <<>>],
       [raw |-> <<"1","0","/","0","2"," ","1","1",":","5","9","p","m"," ","H","W"," ","1"," ","d","u","e">>,
        parse |-> Single(Comp(0, 10, 2, 23, 59, MDT)), retry |-> <<>>],
       [raw |-> <<"S","e","p"," ","1","9"," ","3","EN","4","p","m"," ","EM"," ","Q","u","i","z"," ","1">>,
        parse |-> Range(Comp(0, 9, 19, 15, 0, MDT), Comp(0, 9, 19, 16, 0, MDT)),
        retry |-> <<>>],
       [raw |-> <<"O","c","t"," ","7"," ","2","0","2","6"," ","9","a","m"," ","L","a","b">>,
        parse |-> Single(Comp(2026, 10, 7, 9, 0, MDT \cup {"year"})), retry |-> <<>>],
       \* no date in the line: the retry finds the appended time only
       [raw |-> <<"F","i","n","a","l"," ","r","e","p","o","r","t"," ","d","u","e">>,
        parse |-> <<>>, retry |-> Single(Comp(0, 8, 1, 23, 59, {"hour", "minute"}))],
       \* an answer the capability's contract allows: a date found only on the retry
       [raw |-> <<"E","s","s","a","y"," ","d","u","e"," ","w","k"," ","6">>,
        parse |-> <<>>, retry |-> Single(Comp(0, 10, 9, 23, 59, MDT))],
       \* an answer the capability's contract allows: a range whose end is no valid date
       [raw |-> <<"O","c","t"," ","8"," ","1","-","2","p","m"," ","L","a","b">>,
        parse |-> Range(Comp(0, 10, 8, 13, 0, MDT), BadComp(MDT \cup {"year"})),
        retry |-> <<>>],
       [raw |-> <<"r","a","n","d","o","m"," ","n","o","t","e","s">>, parse |-> <<>>, retry |-> <<>>] >>

\* the trimmed lines of the corpus
CorpusLines == {trim(Corpus[i].raw) : i \in 1..Len(Corpus)} \ {<<>>}

EntryOf(line) == Corpus[CHOOSE i \in 1..Len(Corpus) : trim(Corpus[i].raw) = line]

\* chrono.parse(line, referenceDate, { forwardDate: true })
chronoParse(line) == EntryOf(line).parse

\* chrono.parse(`${line} ${defaultTime}`, referenceDate, { forwardDate: true })
chronoParseWithTime(line) == EntryOf(line).retry

\* component.date(), its implied year taken from the reference date
CompDate(c, refYear) ==
    IF c.bad THEN InvalidDate
    ELSE MkDate(IF "year" \in c.certain THEN c.y ELSE refYear, c.m, c.d, c.h, c.mi)

isCertain(c, f) == f \in c.certain


(***************************************************************************)
(* The parse route: POST                                                   *)
(***************************************************************************)
\* new Date().getFullYear()
CurrentYear == 2026

\* defaultDurationMinutes = 60
DefaultDuration == 60

\* defaultTime = "23:59"
DefaultTime == Str(<<"2","3",":","5","9">>)

CourseEvent == <<"C","o","u","r","s","e"," ","E","v","e","n","t">>

\* What the route reads of a line: isDatey(line), the loop's isDeadline and
\* hasTimeToken, and extractTitle(line).
LexLine(line) ==
    [line |-> line,
     datey |-> isDatey(line),
     isDeadline |-> isDeadlineLine(line),
     hasTimeToken |-> hasTimeTokenLine(line),
     title |-> extractTitle(line)]

\* LexLine, tabulated once per line of the corpus
LineLex == [line \in CorpusLines |-> LexLine(line)]

\* MinutesOf with the supplied value ignored
MinutesOfFixed(defaultDurationMinutes) == Num(60)

\* Number(defaultDurationMinutes) || 60, with the destructuring default
MinutesOf(defaultDurationMinutes) ==
    LET d == IF defaultDurationMinutes = Undefined THEN Num(DefaultDuration)
             ELSE defaultDurationMinutes
    IN  IF Truthy(Number(d)) THEN Number(d) ELSE Num(60)

\* new Date(start.getTime() + minutes * 60 * 1000)
DefaultEnd(start, minutes) ==
    IF minutes.k = "huge" THEN InvalidDate ELSE AddMinutes(start, minutes.v)

\* end ? end.toISOString() : undefined
EndISO(end) == IF end = Undefined THEN <<>> ELSE toISOString(end)

\* chrono.parse(line, ...), retried with the default time appended when it finds
\* nothing in a deadline line with no explicit time
ResultsOf(ll, defaultTime) ==
    IF /\ chronoParse(ll.line) = <<>>
       /\ ll.isDeadline
       /\ ~ll.hasTimeToken
       /\ Truthy(defaultTime)
    THEN chronoParseWithTime(ll.line)
    ELSE chronoParse(ll.line)

\* Force fallback year if year wasn't explicit
ForceYear(c, refYear) ==
    IF ~isCertain(c, "year") THEN setFullYear(CompDate(c, refYear), refYear)
    ELSE CompDate(c, refYear)

\* const hasRange = !!r.end
HasRange(r) == r.end # <<>>

\* the range's end, dropped when it is no valid date
RangeEnd(r, refYear) ==
    IF HasRange(r) /\ isValid(ForceYear(r.end[1], refYear))
    THEN ForceYear(r.end[1], refYear)
    ELSE Undefined

\* Does the event have a time?
HasTime(r, ll) ==
    \/ isCertain(r.start, "hour")
    \/ isCertain(r.start, "minute")
    \/ HasRange(r)
    \/ ll.hasTimeToken

\* EndOf with the default duration given to deadline lines too
EndOfNoDeadlineRule(r, ll, refYear, defaultDurationMinutes) ==
    IF ~HasRange(r) /\ HasTime(r, ll)
    THEN DefaultEnd(ForceYear(r.start, refYear), MinutesOf(defaultDurationMinutes))
    ELSE RangeEnd(r, refYear)

\* the end-instant policy
EndOf(r, ll, refYear, defaultDurationMinutes) ==
    IF ~HasRange(r) /\ HasTime(r, ll) /\ ~ll.isDeadline
    THEN DefaultEnd(ForceYear(r.start, refYear), MinutesOf(defaultDurationMinutes))
    ELSE IF ~HasRange(r) /\ HasTime(r, ll) /\ ll.isDeadline
    THEN Undefined
    ELSE RangeEnd(r, refYear)

\* extractTitle(line) || "Course Event"
TitleOf(ll) == IF ll.title # <<>> THEN ll.title ELSE CourseEvent

\* out.push({ title, start, end, allDay, sourceLine: line }); toISOString throws
\* a RangeError on an Invalid Date
PushEvent(title, start, end, allDay, line) ==
    IF ~isValid(start) \/ end = InvalidDate THEN [k |-> "throw"]
    ELSE [k |-> "event",
          e |-> [title |-> title,
                 start |-> toISOString(start),
                 end |-> EndISO(end),
                 allDay |-> allDay,
                 sourceLine |-> line]]

\* the loop body on the first result r
ResolveResult(r, ll, refYear, defaultDurationMinutes) ==
    IF ~isValid(CompDate(r.start, refYear)) THEN [k |-> "skip"]
    ELSE IF ~(isCertain(r.start, "month") /\ isCertain(r.start, "day"))
    THEN [k |-> "skip"]
    ELSE PushEvent(TitleOf(ll),
                   ForceYear(r.start, refYear),
                   EndOf(r, ll, refYear, defaultDurationMinutes),
                   ~HasTime(r, ll),
                   ll.line)

\* One pass of the loop body for a line: [k |-> "skip"] (continue),
\* [k |-> "throw"] or the event pushed.
ResolveLine(ll, refYear, defaultDurationMinutes, defaultTime) ==
    IF ResultsOf(ll, defaultTime) = <<>> THEN [k |-> "skip"]
    ELSE ResolveResult(ResultsOf(ll, defaultTime)[1], ll, refYear,
                       defaultDurationMinutes)

\* String(text).split(/\r?\n/).map((l) => l.trim()).filter(Boolean).filter(isDatey)
\* (text is the sequence of the lines between the line breaks; a line comes with
\* what the route reads of it)
FilterLines(text) ==
    SelectSeq([i \in 1..Len(text) |->
                  IF trim(text[i]) = <<>> THEN [line |-> <<>>, datey |-> FALSE]
                  ELSE LineLex[trim(text[i])]],
              LAMBDA ll : ll.line # <<>> /\ ll.datey)

\* for (const line of lines) { ... out.push(...) }: the events pushed, and whether
\* a line threw (which ends the loop)
RECURSIVE Loop(_, _, _, _, _)
Loop(lls, out, refYear, defaultDurationMinutes, defaultTime) ==
    IF lls = <<>> THEN [threw |-> FALSE, out |-> out]
    ELSE LET res == ResolveLine(Head(lls), refYear, defaultDurationMinutes, defaultTime)
         IN  IF res.k = "throw" THEN [threw |-> TRUE, out |-> out]
             ELSE Loop(Tail(lls),
                       IF res.k = "event" THEN Append(out, res.e) ELSE out,
                       refYear, defaultDurationMinutes, defaultTime)

\* `${e.title}|${e.start}`
KeyOf(e) == <<e.title, e.start>>

\* Array.from(new Map(out.map((e) => [key, e])).values()): a key keeps the place
\* of its first entry and the value of its last
Dedup(out) ==
    LET firsts == SelectSeq([i \in 1..Len(out) |-> i],
                            LAMBDA i : \A j \in 1..(i - 1) : KeyOf(out[j]) # KeyOf(out[i]))
        LastOf(i) == CHOOSE j \in i..Len(out) :
                        /\ KeyOf(out[j]) = KeyOf(out[i])
                        /\ \A m \in (j + 1)..Len(out) : KeyOf(out[m]) # KeyOf(out[i])
    IN  [n \in 1..Len(firsts) |-> out[LastOf(firsts[n])]]

\* refYear
RefYearOf(fallbackYear) ==
    IF NumberIsFinite(Number(fallbackYear)) THEN Number(fallbackYear).v ELSE CurrentYear

\* defaultTime = "23:59" when the body has none
DefaultTimeOf(body) == IF body.defaultTime = Undefined THEN DefaultTime ELSE body.defaultTime

\* The handler's run on a body: the filtered lines, the events pushed, whether
\* the catch clause ran, and the JSON array answered.
RunOf(lls, body) ==
    LET run == Loop(lls, <<>>, RefYearOf(body.fallbackYear),
                    body.defaultDurationMinutes, DefaultTimeOf(body))
    IN  [lines |-> [i \in 1..Len(lls) |-> lls[i].line],
         out |-> run.out,
         threw |-> run.threw,
         json |-> IF run.threw THEN <<>> ELSE Dedup(run.out)]

ParseRun(body) ==
    IF body.text = <<>>
    THEN [lines |-> <<>>, out |-> <<>>, threw |-> FALSE, json |-> <<>>]
    ELSE RunOf(FilterLines(body.text), body)

(***************************************************************************)
(* State                                                                   *)
(***************************************************************************)
VARIABLES
    body,        \* parse route: the request body
    handled,     \* parse route: whether POST has answered
    lines,       \* parse route: the filtered lines
    out,         \* parse route: the events pushed by the loop
    threw,       \* parse route: whether the catch clause ran
    json,        \* parse route: the array answered
    titleArg,    \* extractTitle: the line it is called with
    titleRet,    \* extractTitle: <<>> before the call, <<title>> after it
    dateyArg,    \* isDatey: the line it is called with
    dateyRet,    \* isDatey: <<>> before the call, <<result>> after it
    icsReq,      \* ics route: the request
    icsRes,      \* ics route: the response, NoResponse before POST answers
    input,       \* page: the text pasted
    events,      \* page: the rows of the table
    loading,     \* page: "parse", "ics" or "null"
    error,       \* page: "null" or the request the message is about
    parseCalls,  \* page: the parse requests in flight
    icsCalls,    \* page: the number of ICS requests in flight
    issued,      \* page: the number of parse requests sent so far
    shownFrom,   \* page: the parse request whose answer the table shows (0: none)
    newestAnswer,\* page: the newest parse request answered so far (0: none)
    edits,       \* page: the number of edits of the table so far
    typed        \* page: the number of times the text was replaced

parseVars == <<body, handled, lines, out, threw, json>>

titleVars == <<titleArg, titleRet>>

dateyVars == <<dateyArg, dateyRet>>

icsVars == <<icsReq, icsRes>>

pageVars == <<input, events, loading, error, parseCalls, icsCalls, issued, shownFrom,
              newestAnswer, edits, typed>>

vars == <<parseVars, titleVars, dateyVars, icsVars, pageVars>>

(***************************************************************************)
(* The parse route as a state machine                                      *)
(***************************************************************************)
\* the most lines of a request's text
MaxLines == 2

RawLines == {Corpus[i].raw : i \in 1..Len(Corpus)}

RECURSIVE SeqsUpTo(_, _)
SeqsUpTo(S, n) ==
    IF n = 0 THEN {<<>>}
    ELSE LET shorter == SeqsUpTo(S, n - 1)
         IN  shorter \cup {Append(q, x) : q \in {t \in shorter : Len(t) = n - 1}, x \in S}

Bodies ==
    [text : SeqsUpTo(RawLines, MaxLines),
     fallbackYear : {Undefined, Num(2025)},
     defaultDurationMinutes : {Undefined, Num(0), Num(30), Num(-30), Huge},
     defaultTime : {Undefined, Str(<<>>)}]

ParseIdle ==
    /\ body = [text |-> <<>>, fallbackYear |-> Undefined,
               defaultDurationMinutes |-> Undefined, defaultTime |-> Undefined]
    /\ handled = TRUE
    /\ lines = <<>>
    /\ out = <<>>
    /\ threw = FALSE
    /\ json = <<>>

TitleIdle == titleArg = <<>> /\ titleRet = <<>>

DateyIdle == dateyArg = <<>> /\ dateyRet = <<>>

NoResponse == [status |-> 0, text |-> <<>>, filename |-> <<>>]

IcsIdle == icsReq = [events |-> <<>>, calendar |-> Undefined, now |-> InvalidDate] /\ icsRes = NoResponse

PageIdle ==
    /\ input = <<>>
    /\ events = <<>>
    /\ loading = "null"
    /\ error = "null"
    /\ parseCalls = {}
    /\ icsCalls = 0
    /\ issued = 0
    /\ shownFrom = 0
    /\ newestAnswer = 0
    /\ edits = 0
    /\ typed = 0

ParseInit ==
    /\ body \in Bodies
    /\ handled = FALSE
    /\ lines = <<>>
    /\ out = <<>>
    /\ threw = FALSE
    /\ json = <<>>
    /\ TitleIdle
    /\ DateyIdle
    /\ IcsIdle
    /\ PageIdle

\* export async function POST(req) of app/api/parse/route.ts
ParsePOST ==
    /\ ~handled
    /\ LET run == ParseRun(body)
       IN  /\ lines' = run.lines
           /\ out' = run.out
           /\ threw' = run.threw
           /\ json' = run.json
    /\ handled' = TRUE
    /\ UNCHANGED <<body, titleVars, dateyVars, icsVars, pageVars>>

SpecParse == ParseInit /\ [][ParsePOST]_vars


(***************************************************************************)
(* Claims about the parse route                                            *)
(***************************************************************************)
RefYear == RefYearOf(body.fallbackYear)

\* the first result of the extraction for the line of an event
ResultFor(e) == ResultsOf(LineLex[e.sourceLine], DefaultTimeOf(body))[1]

\* end - start of an event, in minutes
MinutesBetween(e) == getTime(DateOfISO(e.end)) - getTime(DateOfISO(e.start))

\* C1: de-duplication is first-occurrence-wins: for every (title, start) pair
\* among the events pushed, exactly one event of the answer has the pair, and it
\* is the event pushed by the first line with that pair.
C1_FirstOccurrenceWins ==
    (handled /\ ~threw) =>
        \A i \in 1..Len(out) :
            (\A j \in 1..(i - 1) : KeyOf(out[j]) # KeyOf(out[i])) =>
                /\ Cardinality({n \in 1..Len(json) : KeyOf(json[n]) = KeyOf(out[i])}) = 1
                /\ \E n \in 1..Len(json) : json[n] = out[i]

\* the event a line resolves to on its own, as a set (empty when it is skipped
\* or throws)
OwnEvent(line) ==
    LET res == ResolveLine(LineLex[line], RefYear, body.defaultDurationMinutes,
                           DefaultTimeOf(body))
    IN  IF res.k = "event" THEN {res.e} ELSE {}

\* C2: per-line failure isolation: every filtered line that resolves on its own
\* has its (title, start) pair in the answer, whatever happens to the other lines.
C2_FailureIsolation ==
    handled =>
        \A i \in 1..Len(lines) :
            \A e \in OwnEvent(lines[i]) :
                \E n \in 1..Len(json) : KeyOf(json[n]) = KeyOf(e)

\* C3: a deadline line with a resolvable date and no explicit time token, resolved
\* with a non-empty default time, yields an event at the default time of day with
\* no end and allDay = FALSE.
C3_DeadlineRescue ==
    handled =>
        \A n \in 1..Len(json) :
            ( /\ LineLex[json[n].sourceLine].isDeadline
              /\ ~LineLex[json[n].sourceLine].hasTimeToken
              /\ Truthy(DefaultTimeOf(body)) ) =>
                /\ json[n].allDay = FALSE
                /\ json[n].end = <<>>
                /\ <<json[n].start[4], json[n].start[5]>> = <<23, 59>>

\* an event of a non-deadline line that has a time and no range
TimedSingle(e) ==
    /\ ~LineLex[e.sourceLine].isDeadline
    /\ HasTime(ResultFor(e), LineLex[e.sourceLine])
    /\ ~HasRange(ResultFor(e))

\* C4 as claimed: end - start is the defaultDurationMinutes supplied, whatever its
\* value, and 60 when none is supplied.
C4_AnySuppliedDuration ==
    handled =>
        \A n \in 1..Len(json) :
            TimedSingle(json[n]) =>
                /\ json[n].end # <<>>
                /\ MinutesBetween(json[n]) =
                      IF body.defaultDurationMinutes = Undefined THEN 60
                      ELSE body.defaultDurationMinutes.v

\* C4, amended: end - start is the defaultDurationMinutes supplied when that is a
\* non-zero number, and 60 when the body supplies none or 0.
C4_DefaultDuration ==
    handled =>
        \A n \in 1..Len(json) :
            TimedSingle(json[n]) =>
                /\ json[n].end # <<>>
                /\ MinutesBetween(json[n]) =
                      IF /\ body.defaultDurationMinutes # Undefined
                         /\ body.defaultDurationMinutes.k = "num"
                         /\ body.defaultDurationMinutes.v # 0
                      THEN body.defaultDurationMinutes.v
                      ELSE 60

\* C4 witness: a timed non-deadline event resolved with defaultDurationMinutes: 0
C4_Witness ==
    /\ handled
    /\ body.defaultDurationMinutes = Num(0)
    /\ \E n \in 1..Len(json) : TimedSingle(json[n]) /\ MinutesBetween(json[n]) = 60

\* the line of the event yielded a range whose end is a valid date
ValidRange(e) ==
    /\ HasRange(ResultFor(e))
    /\ isValid(ForceYear(ResultFor(e).end[1], RefYear))

MaxTitleWords == 3

\* the most words of a line handed to isDatey
MaxDateyWords == 2

\* the words of the lines handed to extractTitle (the empty word makes a line
\* start or end with a space, or hold two spaces in a row)
TitleWords == {<<>>, <<"-">>, <<"EM">>, <<"Q","u","i","z">>, <<"O","c","t">>, <<"6">>, <<"1","p","m">>, <<"M","o","n">>, <<"1","0","/","2">>, <<"3","-","4">>}

\* the words of the lines handed to isDatey
DateyWords == {<<"f","i","n","a","l","s">>, <<"f","i","n","a","l">>, <<"l","a","b">>, <<"3">>, <<"x","3">>, <<"1","0","/","9">>, <<"o","c","t">>, <<"D","u","e">>, <<"n","o","t","e","s">>}

\* the lines of one to n words of W, a space between two words
WordLines(W, n) == {join(ws, <<" ">>) : ws \in SeqsUpTo(W, n) \ {<<>>}}

TitleInit ==
    /\ titleArg \in WordLines(TitleWords, MaxTitleWords)
    /\ titleRet = <<>>
    /\ ParseIdle
    /\ DateyIdle
    /\ IcsIdle
    /\ PageIdle

\* a call of extractTitle(line)
CallExtractTitle ==
    /\ titleRet = <<>>
    /\ titleRet' = <<extractTitle(titleArg)>>
    /\ UNCHANGED <<titleArg, parseVars, dateyVars, icsVars, pageVars>>

SpecTitle == TitleInit /\ [][CallExtractTitle]_vars

DateyInit ==
    /\ dateyArg \in WordLines(DateyWords, MaxDateyWords)
    /\ dateyRet = <<>>
    /\ ParseIdle
    /\ TitleIdle
    /\ IcsIdle
    /\ PageIdle

\* a call of isDatey(line)
CallIsDatey ==
    /\ dateyRet = <<>>
    /\ dateyRet' = <<isDatey(dateyArg)>>
    /\ UNCHANGED <<dateyArg, parseVars, titleVars, icsVars, pageVars>>

SpecDatey == DateyInit /\ [][CallIsDatey]_vars

HoldsAt(s, w, a) == a >= 1 /\ a + Len(w) - 1 <= Len(s) /\ SubSeq(s, a, a + Len(w) - 1) = w

\* no word character right before position a, none right after position b
Standalone(s, a, b) ==
    /\ a = 1 \/ s[a - 1] \notin WordSet
    /\ b = Len(s) \/ s[b + 1] \notin WordSet

AllIn(s, a, b, cs) == \A i \in a..b : s[i] \in cs

\* a slash-style date token: one or two digits, a slash, one or two digits
HasSlashToken(s) ==
    \E a \in 1..Len(s), m \in 1..2, n \in 1..2 :
        /\ a + m + n <= Len(s)
        /\ AllIn(s, a, a + m - 1, DigitSet)
        /\ s[a + m] = "/"
        /\ AllIn(s, a + m + 1, a + m + n, DigitSet)
        /\ Standalone(s, a, a + m + n)

\* a month name (a month abbreviation and the word characters after it), white
\* space, and a digit
HasMonthAndDay(s) ==
    \E k \in 1..Len(MonthWords), a \in 1..Len(s), p \in 1..Len(s), q \in 1..Len(s) :
        /\ HoldsAt(s, MonthWords[k], a)
        /\ a + Len(MonthWords[k]) <= p /\ p < q
        /\ AllIn(s, a + Len(MonthWords[k]), p - 1, WordSet)
        /\ AllIn(s, p, q - 1, SpaceSet)
        /\ s[q] \in DigitSet

\* the whole word w
HasWord(s, w) == \E a \in 1..Len(s) : HoldsAt(s, w, a) /\ Standalone(s, a, a + Len(w) - 1)

\* w anywhere, also inside a longer word
HasPart(s, w) == \E a \in 1..Len(s) : HoldsAt(s, w, a)

\* a standalone number
HasNumber(s) ==
    \E a \in 1..Len(s), b \in 1..Len(s) :
        a <= b /\ AllIn(s, a, b, DigitSet) /\ Standalone(s, a, b)

DueWords == {<<"d","u","e">>, <<"d","e","a","d","l","i","n","e">>}

ExamWords == {<<"e","x","a","m">>, <<"q","u","i","z">>, <<"m","i","d","t","e","r","m">>, <<"f","i","n","a","l">>}

OtherHints == {<<"a","s","s","i","g","n","m","e","n","t">>, <<"p","r","o","j","e","c","t">>, <<"p","a","p","e","r">>, <<"h","w">>, <<"r","e","a","d","i","n","g">>, <<"p","r","e","s","e","n","t","a","t","i","o","n">>, <<"l","a","b">>, <<"r","e","p","o","r","t">>}

\* C7 as claimed: a line is kept exactly when it holds a slash date, a month and
\* day, the word due or deadline, the whole word exam, quiz, midterm or final,
\* or one of the eight other hint words together with a standalone number.
C7_FilterRule ==
    dateyRet # <<>> =>
        LET l == toLowerCase(dateyArg)
        IN  dateyRet[1] <=>
               \/ HasSlashToken(l)
               \/ HasMonthAndDay(l)
               \/ \E x \in DueWords : HasWord(l, x)
               \/ \E x \in ExamWords : HasWord(l, x)
               \/ (\E x \in OtherHints : HasPart(l, x)) /\ HasNumber(l)

\* C7, amended: ... or any of the twelve hint words (exam, quiz, midterm and
\* final among them), also inside a longer word, together with a standalone
\* number; so "finals 3" and "examination 3" are kept.
C7_FilterRuleAllHints ==
    dateyRet # <<>> =>
        LET l == toLowerCase(dateyArg)
        IN  dateyRet[1] <=>
               \/ HasSlashToken(l)
               \/ HasMonthAndDay(l)
               \/ \E x \in DueWords : HasWord(l, x)
               \/ \E x \in ExamWords : HasWord(l, x)
               \/ (\E x \in OtherHints \cup ExamWords : HasPart(l, x)) /\ HasNumber(l)

\* C7 witness: a line kept only for an exam word inside a longer word and a number
C7_Witness ==
    /\ dateyRet = <<TRUE>>
    /\ LET l == toLowerCase(dateyArg)
       IN  /\ ~HasSlashToken(l)
           /\ ~HasMonthAndDay(l)
           /\ \A x \in DueWords \cup ExamWords : ~HasWord(l, x)
           /\ \A x \in OtherHints : ~HasPart(l, x)
           /\ \E x \in ExamWords : HasPart(l, x)
           /\ HasNumber(l)

(***************************************************************************)
(* lib/ics.ts: the calendar text                                           *)
(***************************************************************************)
DigitSeq == <<"0", "1", "2", "3", "4", "5", "6", "7", "8", "9">>

\* String(n) of a natural number
RECURSIVE String(_)
String(n) == IF n < 10 THEN <<DigitSeq[n + 1]>> ELSE String(n \div 10) \o <<DigitSeq[(n % 10) + 1]>>

\* String(n).padStart(2, "0")
pad(n) == IF n < 10 THEN <<"0">> \o String(n) ELSE String(n)

\* the getters of an Invalid Date answer NaN, and pad(NaN) is "NaN"
fmtDate(d) ==
    IF d.k # "date" THEN <<"N", "a", "N", "N", "a", "N", "N", "a", "N">>
    ELSE String(getFullYear(d)) \o pad(MonthOf(d)) \o pad(getDate(d))

\* local time, e.g. 20251016T090000
fmtDateTime(d) ==
    IF d.k # "date" THEN <<"N", "a", "N", "N", "a", "N", "N", "a", "N", "T", "N", "a", "N", "N", "a", "N", "0", "0">>
    ELSE fmtDate(d) \o <<"T">> \o pad(getHours(d)) \o pad(getMinutes(d)) \o <<"0", "0">>

\* String.prototype.replace(/c/g, rep) for one character c
RECURSIVE ReplaceAll(_, _, _)
ReplaceAll(s, c, rep) ==
    IF s = <<>> THEN <<>>
    ELSE (IF Head(s) = c THEN rep ELSE <<Head(s)>>) \o ReplaceAll(Tail(s), c, rep)

\* escape per iCalendar rules
esc(s) ==
    ReplaceAll(ReplaceAll(ReplaceAll(ReplaceAll(s, "\\", <<"\\", "\\">>), "\n", <<"\\", "n">>),
                          ",", <<"\\", ",">>), ";", <<"\\", ";">>)

\* date-fns addDays
addDays(d, n) == AddMinutes(d, n * DayMinutes)

\* date-fns addMinutes
addMinutes(d, n) == AddMinutes(d, n)

\* e.end ?? e.start
EndOrStart(e) == IF e.end = Undefined THEN e.start ELSE e.end

\* the DTSTART and DTEND lines of one event
AllDayLines(e) ==
    << <<"D", "T", "S", "T", "A", "R", "T", ";", "V", "A", "L", "U", "E", "=", "D", "A", "T", "E", ":">> \o fmtDate(e.start),
       <<"D", "T", "E", "N", "D", ";", "V", "A", "L", "U", "E", "=", "D", "A", "T", "E", ":">> \o fmtDate(addDays(EndOrStart(e), 1)) >>

TimedLines(e) ==
    << <<"D", "T", "S", "T", "A", "R", "T", ":">> \o fmtDateTime(e.start),
       <<"D", "T", "E", "N", "D", ":">> \o fmtDateTime(IF e.end = Undefined THEN addMinutes(e.start, 60) ELSE e.end) >>

\* the lines makeICS pushes for events[i] (i counts from 0); the time value of
\* now is written in this model's minutes
VEvent(e, i, now) ==
    << <<"B", "E", "G", "I", "N", ":", "V", "E", "V", "E", "N", "T">>,
       <<"U", "I", "D", ":">> \o String(getTime(now)) \o <<"-">> \o String(i) \o <<"@", "s", "y", "l", "l", "a", "b", "u", "s", ".", "l", "o", "c", "a", "l">>,
       <<"S", "U", "M", "M", "A", "R", "Y", ":">> \o esc(e.title),
       <<"D", "T", "S", "T", "A", "M", "P", ":">> \o fmtDateTime(now) >>
    \o (IF e.allDay THEN AllDayLines(e) ELSE TimedLines(e))
    \o (IF e.description # <<>> THEN << <<"D", "E", "S", "C", "R", "I", "P", "T", "I", "O", "N", ":">> \o esc(e.description) >> ELSE <<>>)
    \o << <<"S", "T", "A", "T", "U", "S", ":", "C", "O", "N", "F", "I", "R", "M", "E", "D">>, <<"E", "N", "D", ":", "V", "E", "V", "E", "N", "T">> >>

RECURSIVE VEvents(_, _, _)
VEvents(evs, i, now) ==
    IF i >= Len(evs) THEN <<>>
    ELSE VEvent(evs[i + 1], i, now) \o VEvents(evs, i + 1, now)

CRLF == <<"\r", "\n">>

makeICS(evs, calendarName, now) ==
    join(<< <<"B", "E", "G", "I", "N", ":", "V", "C", "A", "L", "E", "N", "D", "A", "R">>,
            <<"V", "E", "R", "S", "I", "O", "N", ":", "2", ".", "0">>,
            <<"P", "R", "O", "D", "I", "D", ":", "-", "/", "/", "S", "y", "l", "l", "a", "b", "u", "s", "T", "o", "C", "a", "l", "e", "n", "d", "a", "r", "/", "/", "E", "N">>,
            <<"C", "A", "L", "S", "C", "A", "L", "E", ":", "G", "R", "E", "G", "O", "R", "I", "A", "N">>,
            <<"N", "A", "M", "E", ":">> \o esc(calendarName),
            <<"X", "-", "W", "R", "-", "C", "A", "L", "N", "A", "M", "E", ":">> \o esc(calendarName) >>
         \o VEvents(evs, 0, now)
         \o << <<"E", "N", "D", ":", "V", "C", "A", "L", "E", "N", "D", "A", "R">> >>,
         CRLF)

(***************************************************************************)
(* app/api/ics/route.ts: POST                                              *)
(***************************************************************************)
\* new Date(x) of an ISO string; a missing or unreadable one gives Invalid Date
NewDate(x) == IF x = <<>> THEN InvalidDate ELSE DateOfISO(x)

Untitled == <<"U", "n", "t", "i", "t", "l", "e", "d">>

\* one incoming event, normalized to an EventLike
Normalize(e) ==
    [ title       |-> IF e.title = Undefined THEN Untitled ELSE e.title.s,
      start       |-> NewDate(e.start),
      end         |-> IF e.end # <<>> THEN NewDate(e.end) ELSE Undefined,
      allDay      |-> e.allDay,
      description |-> IF e.sourceLine # <<>>
                      THEN <<"F", "r", "o", "m", " ", "s", "y", "l", "l", "a", "b", "u", "s", ":", " ">> \o e.sourceLine
                      ELSE <<>> ]

FileChars == {"\\", "/", ":", "*", "?", "\"", "<", ">", "|"}

\* String.prototype.replace(/[\\/:*?"<>|]+/g, "_")
RECURSIVE ReplaceRuns(_, _, _)
ReplaceRuns(s, cs, rep) ==
    IF s = <<>> THEN <<>>
    ELSE IF Head(s) \in cs
    THEN (IF Len(s) > 1 /\ s[2] \in cs THEN <<>> ELSE rep) \o ReplaceRuns(Tail(s), cs, rep)
    ELSE <<Head(s)>> \o ReplaceRuns(Tail(s), cs, rep)

sanitize(name) ==
    LET s == trim(ReplaceRuns(name, FileChars, <<"_">>))
    IN  IF s # <<>> THEN s ELSE <<"c", "a", "l", "e", "n", "d", "a", "r">>

\* calendarFromQuery ?? "Syllabus" (the body here is the array of events)
CalendarNameOf(req) == IF req.calendar = Undefined THEN <<"S", "y", "l", "l", "a", "b", "u", "s">> ELSE req.calendar.s

\* the response of POST to a request
IcsRun(req) ==
    IF Len(req.events) = 0
    THEN [status |-> 400, text |-> <<>>, filename |-> <<>>]
    ELSE [status   |-> 200,
          text     |-> makeICS([n \in 1..Len(req.events) |-> Normalize(req.events[n])],
                               CalendarNameOf(req), req.now),
          filename |-> sanitize(CalendarNameOf(req)) \o <<".", "i", "c", "s">>]

MaxIcsEvents == 2

IcsTitles == {Undefined, Str(<<"A", ",", "b", ";", "c">>)}

IcsStarts == {<<2025, 10, 9, 0, 0>>, <<2025, 12, 31, 9, 0>>}

IcsEnds == {<<>>, <<2025, 10, 7, 0, 0>>, <<2025, 10, 10, 0, 0>>}

IncomingEvents ==
    { [title |-> t, start |-> s, end |-> e, allDay |-> a,
       sourceLine |-> IF t = Undefined THEN <<>> ELSE <<"Q", "u", "i", "z", " ", "1">>] :
      t \in IcsTitles, s \in IcsStarts, e \in IcsEnds, a \in BOOLEAN }

IcsRequests ==
    { [events |-> es, calendar |-> c, now |-> MkDate(2025, 9, 1, 8, 30)] :
      es \in SeqsUpTo(IncomingEvents, MaxIcsEvents), c \in {Undefined, Str(<<"C", "S", "/", "1", "0", "1">>)} }

IcsInit ==
    /\ icsReq \in IcsRequests
    /\ icsRes = NoResponse
    /\ ParseIdle
    /\ TitleIdle
    /\ DateyIdle
    /\ PageIdle

\* POST /api/ics
IcsPOST ==
    /\ icsRes = NoResponse
    /\ icsRes' = IcsRun(icsReq)
    /\ UNCHANGED <<icsReq, parseVars, titleVars, dateyVars, pageVars>>

SpecICS == IcsInit /\ [][IcsPOST]_vars

\* the positions of the line breaks of a text
Breaks(text) == {p \in 1..Len(text) : HoldsAt(text, CRLF, p)}

\* the first position after the line that starts at a
LineEnd(text, a) ==
    CHOOSE p \in Breaks(text) \cup {Len(text) + 1} :
        p >= a /\ \A q \in Breaks(text) : ~(a <= q /\ q < p)

\* the values of the content lines that begin with name, in order
PropertyValues(text, name) ==
    LET at == {a \in {1} \cup {p + 2 : p \in Breaks(text)} : HoldsAt(text, name, a)}
        Nth(n) == CHOOSE a \in at : Cardinality({b \in at : b < a}) = n - 1
    IN  [n \in 1..Cardinality(at) |->
            SubSeq(text, Nth(n) + Len(name), LineEnd(text, Nth(n)) - 1)]

\* the number a string of digits writes
RECURSIVE DigitsValue(_)
DigitsValue(s) ==
    IF s = <<>> THEN 0
    ELSE 10 * DigitsValue(SubSeq(s, 1, Len(s) - 1))
         + (CHOOSE v \in 0..9 : DigitSeq[v + 1] = s[Len(s)])

Later(a, b) == IF getTime(a) >= getTime(b) THEN a ELSE b

\* the all-day events of the request, in order
AllDayEvents == SelectSeq([n \in 1..Len(icsReq.events) |-> Normalize(icsReq.events[n])],
                          LAMBDA e : e.allDay)

\* C8: for every all-day event, DTEND is the day after the later of the event's
\* end and its start (the day after start when there is no end), so DTEND is
\* never on or before DTSTART, also when the end is earlier than the start.
C8_AllDayEndAfterLater ==
    icsRes.status = 200 =>
        LET starts == PropertyValues(icsRes.text, <<"D", "T", "S", "T", "A", "R", "T", ";", "V", "A", "L", "U", "E", "=", "D", "A", "T", "E", ":">>)
            ends   == PropertyValues(icsRes.text, <<"D", "T", "E", "N", "D", ";", "V", "A", "L", "U", "E", "=", "D", "A", "T", "E", ":">>)
        IN  /\ Len(starts) = Len(AllDayEvents)
            /\ Len(ends) = Len(AllDayEvents)
            /\ \A n \in 1..Len(AllDayEvents) :
                  /\ ends[n] = fmtDate(addDays(Later(EndOrStart(AllDayEvents[n]),
                                                     AllDayEvents[n].start), 1))
                  /\ DigitsValue(starts[n]) < DigitsValue(ends[n])

(***************************************************************************)
(* app/page.tsx: the page                                                  *)
(*                                                                         *)
(* The year and the calendar-name fields keep the values they are          *)
(* constructed with; an answer of a route arrives in a step of its own,    *)
(* in any order with the clicks and the other answers.                     *)
(***************************************************************************)
\* new Date(), where the page reads the clock
Now == MkDate(CurrentYear, 9, 1, 8, 30)

\* the value of a datetime-local input showing d: YYYY-MM-DDTHH:mm, "" as <<>>
toLocalInput(d) ==
    IF d.k # "date" THEN <<>>
    ELSE <<getFullYear(d), MonthOf(d), getDate(d), getHours(d), getMinutes(d)>>

\* the value of a date input showing d: YYYY-MM-DD, "" as <<>>
toLocalDateInput(d) ==
    IF d.k # "date" THEN <<>> ELSE <<getFullYear(d), MonthOf(d), getDate(d)>>

\* fallback ?? new Date()
OrNow(fallback) == IF fallback = Undefined THEN Now ELSE fallback

fromLocalInput(value, fallback) ==
    IF NewDate(value) = InvalidDate THEN OrNow(fallback) ELSE NewDate(value)

\* "".split("-").map(Number) is [0]: year 0 of the Date constructor is 1900,
\* the month and the day default to the first
atLocalMidnight(dateStr, fallback) ==
    LET local == IF dateStr = <<>> THEN MkDate(1900, 1, 1, 0, 0)
                 ELSE MkDate(dateStr[1], dateStr[2], dateStr[3], 0, 0)
    IN  IF local = InvalidDate THEN OrNow(fallback) ELSE local

\* { ...e, ...patch }
Merge(e, patch) == [f \in DOMAIN e |-> IF f \in DOMAIN patch THEN patch[f] ELSE e[f]]

\* updateEvent with the patch spread over every row
updateEveryEvent(prev, i, patch) == [idx \in 1..Len(prev) |-> Merge(prev[idx], patch)]

\* prev.map((e, idx) => (idx === i ? { ...e, ...patch } : e))
updateEvent(prev, i, patch) ==
    [idx \in 1..Len(prev) |-> IF idx = i THEN Merge(prev[idx], patch) ELSE prev[idx]]

\* data.map((e) => ({ ...e, start: new Date(e.start), end: e.end ? new Date(e.end) : undefined }))
FromIncoming(e) ==
    [title |-> e.title, start |-> NewDate(e.start),
     end |-> IF e.end # <<>> THEN NewDate(e.end) ELSE Undefined,
     allDay |-> e.allDay, sourceLine |-> e.sourceLine]

\* the body handleParse sends
ParseBody(text, y) ==
    [text |-> text, fallbackYear |-> Num(y), defaultDurationMinutes |-> Num(60),
     defaultTime |-> Undefined]

\* the events a successful answer to text puts on the page
EventsFor(text, y) ==
    LET data == ParseRun(ParseBody(text, y)).json
    IN  [n \in 1..Len(data) |-> FromIncoming(data[n])]

\* the patches of the table's handlers for row e
StartPatch(e, v) ==
    IF e.allDay
    THEN [start |-> atLocalMidnight(IF v = <<>> THEN v ELSE SubSeq(v, 1, 3), e.start),
          end |-> Undefined]
    ELSE [start |-> fromLocalInput(v, e.start)]

EndPatch(e, v) ==
    IF e.allDay THEN [end |-> Undefined]
    ELSE [end |-> IF v # <<>> THEN fromLocalInput(v, e.end) ELSE Undefined]

\* AllDayPatch with the end kept when the box is checked
AllDayPatchKeepEnd(e, checked) ==
    [allDay |-> checked,
     end |-> e.end,
     start |-> IF checked THEN atLocalMidnight(toLocalDateInput(e.start), e.start)
               ELSE e.start]

AllDayPatch(e, checked) ==
    [allDay |-> checked,
     end |-> IF checked THEN Undefined ELSE e.end,
     start |-> IF checked THEN atLocalMidnight(toLocalDateInput(e.start), e.start)
               ELSE e.start]

MaxParseRequests == 2

MaxIcsRequests == 2

MaxEdits == 2

MaxTyped == 1

\* what the user pastes
PageInputs == { << <<"O", "c", "t", " ", "6", " ", "1", "p", "m", " ", "Q", "u", "i", "z">>, <<" ", "O", "c", "t", " ", "6", " ", "Q", "u", "i", "z", " ">> >>, << <<"H", "W", "2", " ", "d", "u", "e", " ", "1", "0", "/", "9">> >> }

EditedTitle == <<"Q", "u", "i", "z", " ", "1">>

\* what the user picks in a date or datetime-local input ("" clears it)
PickedValues == { <<>>, <<2026, 10, 7, 10, 0>> }

PageInit ==
    /\ PageIdle
    /\ ParseIdle
    /\ TitleIdle
    /\ DateyIdle
    /\ IcsIdle

other == <<parseVars, titleVars, dateyVars, icsVars>>

\* the textarea's onChange
SetInput ==
    /\ typed < MaxTyped
    /\ \E text \in PageInputs : input' = text
    /\ typed' = typed + 1
    /\ UNCHANGED <<events, loading, error, parseCalls, icsCalls, issued, shownFrom,
                   newestAnswer, edits, other>>

\* handleParse up to its await: a click on the Parse button, which is disabled
\* while loading is "parse"
ClickParse ==
    /\ loading # "parse"
    /\ issued < MaxParseRequests
    /\ error' = "null"
    /\ loading' = "parse"
    /\ issued' = issued + 1
    /\ parseCalls' = parseCalls \cup {[id |-> issued + 1, text |-> input]}
    /\ UNCHANGED <<input, events, icsCalls, shownFrom, newestAnswer, edits, typed, other>>

\* handleParse after its await, on an answer that is ok
ParseDone ==
    \E c \in parseCalls :
        /\ events' = EventsFor(c.text, CurrentYear)
        /\ loading' = "null"
        /\ parseCalls' = parseCalls \ {c}
        /\ shownFrom' = c.id
        /\ newestAnswer' = IF c.id > newestAnswer THEN c.id ELSE newestAnswer
        /\ UNCHANGED <<input, error, icsCalls, issued, edits, typed, other>>

\* handleParse after its await, on a fetch that fails or answers not ok
ParseFail ==
    \E c \in parseCalls :
        /\ error' = "parse"
        /\ loading' = "null"
        /\ parseCalls' = parseCalls \ {c}
        /\ UNCHANGED <<input, events, icsCalls, issued, shownFrom, newestAnswer, edits,
                       typed, other>>

\* handleDownloadICS up to its await: a click on the Download button, which is
\* disabled without events and while loading is "ics"
ClickDownload ==
    /\ Len(events) > 0
    /\ loading # "ics"
    /\ icsCalls < MaxIcsRequests
    /\ error' = "null"
    /\ loading' = "ics"
    /\ icsCalls' = icsCalls + 1
    /\ UNCHANGED <<input, events, parseCalls, issued, shownFrom, newestAnswer, edits,
                   typed, other>>

\* handleDownloadICS after its await, on an answer that is ok: the file is saved
IcsDone ==
    /\ icsCalls > 0
    /\ icsCalls' = icsCalls - 1
    /\ loading' = "null"
    /\ UNCHANGED <<input, events, error, parseCalls, issued, shownFrom, newestAnswer,
                   edits, typed, other>>

\* handleDownloadICS after its await, on a fetch that fails or answers not ok
IcsFail ==
    /\ icsCalls > 0
    /\ icsCalls' = icsCalls - 1
    /\ error' = "ics"
    /\ loading' = "null"
    /\ UNCHANGED <<input, events, parseCalls, issued, shownFrom, newestAnswer, edits,
                   typed, other>>

\* an edit of row i of the table with the patch its handler makes
Edit(i, patch) ==
    /\ edits < MaxEdits
    /\ events' = updateEvent(events, i, patch)
    /\ edits' = edits + 1
    /\ UNCHANGED <<input, loading, error, parseCalls, icsCalls, issued, shownFrom,
                   newestAnswer, typed, other>>

\* onChange of the title input
EditTitle == \E i \in 1..Len(events) : Edit(i, [title |-> EditedTitle])

\* onChange of the start input (a date input on an all-day row)
EditStart == \E i \in 1..Len(events), v \in PickedValues : Edit(i, StartPatch(events[i], v))

\* onChange of the end input
EditEnd == \E i \in 1..Len(events), v \in PickedValues : Edit(i, EndPatch(events[i], v))

\* onChange of the all-day checkbox
ToggleAllDay == \E i \in 1..Len(events) : Edit(i, AllDayPatch(events[i], ~events[i].allDay))

PageNext ==
    \/ SetInput
    \/ ClickParse
    \/ ParseDone
    \/ ParseFail
    \/ ClickDownload
    \/ IcsDone
    \/ IcsFail
    \/ EditTitle
    \/ EditStart
    \/ EditEnd
    \/ ToggleAllDay

SpecPage == PageInit /\ [][PageNext]_vars

\* the text of the parse request whose answer is shown after a step
ShownText == (CHOOSE c \in parseCalls : c.id = shownFrom').text

\* the resolver's event for a trimmed line, as the page holds it
ResolvedOnPage(line) ==
    FromIncoming(ResolveLine(LineLex[line], CurrentYear, Num(60), DefaultTime).e)

\* C9: sourceLine is never mutated: every event of an answer carries the trimmed
\* line of the request it was resolved from and is the resolver's event for that
\* line, and an edit of the table leaves every sourceLine, every other row, and
\* the number and order of the rows unchanged.
C9_SourceLineKept ==
    [][ /\ shownFrom' # shownFrom =>
              \A n \in 1..Len(events') :
                  /\ \E k \in 1..Len(ShownText) : events'[n].sourceLine = trim(ShownText[k])
                  /\ events'[n] = ResolvedOnPage(events'[n].sourceLine)
        /\ edits' # edits =>
              /\ Len(events') = Len(events)
              /\ \A n \in 1..Len(events) : events'[n].sourceLine = events[n].sourceLine
              /\ \E i \in 1..Len(events) :
                    \A n \in 1..Len(events) : n # i => events'[n] = events[n]
      ]_vars

\* C9 witness: two rows shown, one of them edited, the other from a line that came padded
C9_Witness ==
    /\ edits > 0
    /\ Len(events) = 2
    /\ events[1].title = EditedTitle
    /\ events[1].sourceLine = <<"O", "c", "t", " ", "6", " ", "1", "p", "m", " ", "Q", "u", "i", "z">>
    /\ events[2] = ResolvedOnPage(<<"O", "c", "t", " ", "6", " ", "Q", "u", "i", "z">>)

\* C10: a button is disabled for as long as its own request is in flight: loading
\* is "parse" while a parse request is in flight and "ics" while an ICS request
\* is, so at most one request of each kind is in flight, and the events shown
\* come from the newest parse request answered.
C10_ButtonGuardsRequest ==
    /\ parseCalls # {} => loading = "parse"
    /\ icsCalls > 0 => loading = "ics"
    /\ Cardinality(parseCalls) <= 1
    /\ icsCalls <= 1
    /\ shownFrom = newestAnswer

\* C11: on the page every row with allDay = TRUE has no end, after a parse
\* answer and after every edit of the table: checking the all-day box clears
\* the end, and an edit of the start or the end of an all-day row leaves the
\* end undefined.
C11_AllDayHasNoEnd ==
    \A n \in 1..Len(events) : events[n].allDay => events[n].end = Undefined

\* C11 witness: a row that the parse answer gave an end, made all-day by an edit
C11_Witness ==
    /\ edits > 0
    /\ \E n \in 1..Len(events) :
          /\ events[n].allDay
          /\ ResolvedOnPage(events[n].sourceLine).end # Undefined
          /\ ~ResolvedOnPage(events[n].sourceLine).allDay

\* C12: every event the parse route answers with an end has its end not earlier
\* than its start, whatever the line, the fallback year and the
\* defaultDurationMinutes of the request.
C12_EndNotBeforeStart ==
    handled =>
        \A n \in 1..Len(json) : json[n].end # <<>> => MinutesBetween(json[n]) >= 0

====
